---- MODULE Spec2Model ----
(***************************************************************************)
(* Model of the Confluence MCP server: the legacy client (ConfluenceClient *)
(* of src/unnamed/part_000, base /rest/api, /content/{id}), the typed      *)
(* client (ConfluenceClient of src/src/confluence-client.ts, /pages/{id}), *)
(* the remote content service they talk to, and the server process of      *)
(* src/src/index.ts: startup, SSE transports and the dispatch of tool      *)
(* calls.                                                                  *)
(*                                                                         *)
(* Strings whose text the code inspects (error payload messages, search    *)
(* queries, error messages) are sequences of symbols;                      *)
(* String.prototype.includes is the contiguous-subsequence test Includes.  *)
(***************************************************************************)
EXTENDS Integers, Sequences, FiniteSets, TLC

VARIABLES
    pages,      \* remote service: page id -> stored page
    labels,     \* remote service: page id -> set of label names on the page
    upd,        \* per caller: the updatePage invocation it is in or has finished
    last,       \* the adapter invocation (other than updatePage) finished last
    srv         \* the MCP server process: startup, SSE transports, tool calls

vars == <<pages, labels, upd, last, srv>>

-----------------------------------------------------------------------------
(* Bounds and input sets                                                   *)

\* Largest expectedVersion a caller passes to updatePage.
MaxVersion == 2

Procs == {"a", "b"}
PageIds == {"p1", "p2"}
Titles == {"T1", "T2"}
Undefined == "<undefined>"
\* An omitted numeric argument or member.
Absent == -1
LabelNames == {"x", "y"}

\* The (pageId, title, content) a caller passes to updatePage.
UpdateInputs == {<<"p1", "T1", "C1">>, <<"p1", "T2", "">>}

\* JavaScript truthiness of a string-or-undefined value: !content
Falsy(x) == x = Undefined \/ x = ""

RECURSIVE IncludesAt(_, _, _)
IncludesAt(hay, needle, i) ==
    IF i + Len(needle) - 1 > Len(hay) THEN FALSE
    ELSE IF SubSeq(hay, i, i + Len(needle) - 1) = needle THEN TRUE
    ELSE IncludesAt(hay, needle, i + 1)

\* String.prototype.includes
Includes(hay, needle) == IncludesAt(hay, needle, 1)

-----------------------------------------------------------------------------
(* The remote service and the transport                                    *)

NoPage == [exists |-> FALSE, space |-> "", title |-> "", content |-> "", version |-> 0]

SpaceKeys == {"S1", "S0"}
\* The spaces of the remote service; it has no operation that adds one.
ExistingSpaces == {"S1"}

\* A response: status 0 stands for "no response at all" (network error).
Response(s, d, m) == [status |-> s, data |-> d, message |-> m]
NoData ==
    [id |-> "", space |-> "", spaceId |-> "", title |-> "", content |-> "",
     version |-> 0, size |-> 0]

\* response.data of a 2xx answer whose body is the JSON value null.
Null == [NoData EXCEPT !.id = Undefined]

\* The id the service keeps for the space with this key.
SpaceId(key) == IF key = "" THEN "" ELSE "id:" \o key

\* The page as the service returns it; the body comes only when it is expanded.
PageData(id, expandBody) ==
    [id |-> id, space |-> pages[id].space, spaceId |-> SpaceId(pages[id].space),
     title |-> pages[id].title,
     content |-> IF expandBody THEN pages[id].content ELSE Undefined,
     version |-> pages[id].version, size |-> 0]

PageMissing == Response(404, NoData, <<"No", "content", "found", "with", "id">>)

\* Statuses a request can fail with whatever the state of the service: 403 for
\* missing permissions, 0 for a network error (no response).
FaultStatuses == {0, 403}
Faults == {Response(s, NoData, <<>>) : s \in FaultStatuses}

\* What the caller of one request can get back: one of the service's possible
\* answers, or a fault.
Transport(resps) == resps \cup Faults

\* What the caller of one GET can get back: as Transport, or a 2xx answer whose
\* body is null instead of the object asked for.
Wire(resps) ==
    Transport(resps) \cup {Response(r.status, Null, <<>>) : r \in {x \in resps : x.status = 200}}

\* axios resolves on 2xx and rejects with an AxiosError otherwise.
Ok(r) == r.status >= 200 /\ r.status < 300

\* GET of a page (either surface).
ServerGetPage(id, expandBody) ==
    IF pages[id].exists THEN Response(200, PageData(id, expandBody), <<>>)
    ELSE PageMissing

\* PUT of a page: optimistic concurrency, the submitted number must be the
\* stored version + 1; a stale number is rejected with 409.
ServerPutPage(id, body) ==
    IF ~pages[id].exists
    THEN PageMissing
    ELSE IF body.version.number # pages[id].version + 1
    THEN Response(409, NoData, <<"Version", "must", "be", "incremented">>)
    ELSE Response(200, [id |-> id, space |-> pages[id].space,
                        spaceId |-> SpaceId(pages[id].space), title |-> body.title,
                        content |-> body.value, version |-> body.version.number,
                        size |-> 0], <<>>)

\* The stored page after an accepted PUT or POST.
Stored(r) ==
    [exists |-> TRUE, space |-> r.data.space, title |-> r.data.title,
     content |-> r.data.content, version |-> r.data.version]

-----------------------------------------------------------------------------
(* Errors reaching the caller of an adapter operation                      *)

NoError ==
    [class |-> "none", code |-> "none", status |-> 0, data |-> <<>>, message |-> <<>>]

\* error.message of an AxiosError, as axios words it.
AxiosMessage(r) ==
    IF r.status = 0 THEN <<"Network Error">>
    ELSE <<"Request failed with status code ", ToString(r.status)>>

\* An AxiosError that no catch block replaced: the raw transport error.
\* status is error.response?.status, data is error.response?.data?.message.
AxiosError(r) ==
    [class |-> "AxiosError", code |-> "none", status |-> r.status, data |-> r.message,
     message |-> AxiosMessage(r)]

\* axios.isAxiosError(error)
isAxiosError(e) == e.class = "AxiosError"

\* new ConfluenceError(message, code)
ConfluenceError(message, code) ==
    [class |-> "ConfluenceError", code |-> code, status |-> 0, data |-> <<>>,
     message |-> message]

\* new Error(message)
Error(message) ==
    [class |-> "Error", code |-> "none", status |-> 0, data |-> <<>>,
     message |-> message]

\* The TypeError of reading a property of null.
TypeError ==
    [class |-> "TypeError", code |-> "none", status |-> 0, data |-> <<>>,
     message |-> <<"Cannot read properties of null">>]

\* The error e is a domain error of the given kind.
IsKind(e, code) == e.class = "ConfluenceError" /\ e.code = code

-----------------------------------------------------------------------------
(* updatePage                                                              *)

Idle ==
    [pc |-> "idle", surface |-> "legacy", pageId |-> "p1", title |-> "T1",
     content |-> "", version |-> 0, currentPage |-> NoData, sent |-> 0,
     requests |-> 0, outcome |-> "none", error |-> NoError, status |-> 0, fresh |-> FALSE]

\* The request body of the legacy PUT /content/{id}.
updateConfluencePage_body_readVersion(currentPage, title, content, version) ==
    [title |-> title, value |-> content,
     version |-> [number |-> currentPage.version + 1]]
updateConfluencePage_body_noIncrement(currentPage, title, content, version) ==
    [title |-> title, value |-> content, version |-> [number |-> version]]
updateConfluencePage_body(currentPage, title, content, version) ==
    [title |-> title, value |-> content, version |-> [number |-> version + 1]]

\* The request body of the typed PUT /pages/{id}.
updatePage_body_noIncrement(pageId, title, content, version) ==
    [id |-> pageId, title |-> title, value |-> content,
     version |-> [number |-> version]]
updatePage_body(pageId, title, content, version) ==
    [id |-> pageId, title |-> title, value |-> content,
     version |-> [number |-> version + 1]]

\* The invocation record of a call that starts now.
Started(surface, id, t, c, v) ==
    [Idle EXCEPT !.surface = surface, !.pageId = id, !.title = t, !.content = c,
                 !.version = v, !.fresh = (pages[id].version = v)]

\* The invocation ends by throwing the transport error of response r unchanged
\* (updateConfluencePage and updatePage have no catch block).
Thrown(call, r) ==
    [call EXCEPT !.pc = "done", !.outcome = "err", !.error = AxiosError(r),
                 !.status = r.status, !.currentPage = NoData]

Returned(call) ==
    [call EXCEPT !.pc = "done", !.outcome = "ok", !.status = 200,
                 !.currentPage = NoData]

\* Legacy updateConfluencePage up to its first await: GET /content/{id}.
updateConfluencePage_read_ignoreFailure(p, id, t, c, v) ==
    /\ upd[p].pc # "write"
    /\ \E r \in Transport({ServerGetPage(id, FALSE)}) :
          LET call == [Started("legacy", id, t, c, v) EXCEPT !.requests = 1] IN
          upd' = [upd EXCEPT ![p] = [call EXCEPT !.pc = "write", !.currentPage = r.data]]
    /\ UNCHANGED <<pages, labels, last>>
updateConfluencePage_read(p, id, t, c, v) ==
    /\ upd[p].pc # "write"
    /\ \E r \in Transport({ServerGetPage(id, FALSE)}) :
          LET call == [Started("legacy", id, t, c, v) EXCEPT !.requests = 1] IN
          upd' = [upd EXCEPT ![p] =
                    IF Ok(r) THEN [call EXCEPT !.pc = "write", !.currentPage = r.data]
                    ELSE Thrown(call, r)]
    /\ UNCHANGED <<pages, labels, last>>

\* Legacy updateConfluencePage from the first await on: PUT /content/{id}.
updateConfluencePage_write(p) ==
    /\ upd[p].pc = "write"
    /\ LET call == [upd[p] EXCEPT !.requests = @ + 1]
           body == updateConfluencePage_body(call.currentPage, call.title,
                                             call.content, call.version)
       IN \E r \in Transport({ServerPutPage(call.pageId, body)}) :
             /\ upd' = [upd EXCEPT ![p] =
                          IF Ok(r) THEN Returned([call EXCEPT !.sent = body.version.number])
                          ELSE Thrown([call EXCEPT !.sent = body.version.number], r)]
             /\ pages' = IF Ok(r) THEN [pages EXCEPT ![call.pageId] = Stored(r)]
                         ELSE pages
    /\ UNCHANGED <<labels, last>>

\* Typed updatePage: one PUT /pages/{id}.
updatePage(p, id, t, c, v) ==
    /\ upd[p].pc # "write"
    /\ LET call == [Started("typed", id, t, c, v) EXCEPT !.requests = 1]
           body == updatePage_body(id, t, c, v)
       IN \E r \in Transport({ServerPutPage(id, body)}) :
             /\ upd' = [upd EXCEPT ![p] =
                          IF Ok(r) THEN Returned([call EXCEPT !.sent = body.version.number])
                          ELSE Thrown([call EXCEPT !.sent = body.version.number], r)]
             /\ pages' = IF Ok(r) THEN [pages EXCEPT ![id] = Stored(r)] ELSE pages
    /\ UNCHANGED <<labels, last>>

-----------------------------------------------------------------------------
(* The remote service: spaces, page reads, creation, search, labels        *)

ListData(n) == [NoData EXCEPT !.size = n]

\* GET /space
ServerGetSpaces == Response(200, ListData(Cardinality(ExistingSpaces)), <<>>)

\* GET /space/{key}
ServerGetSpace(key) ==
    IF key \in ExistingSpaces THEN Response(200, [NoData EXCEPT !.space = key], <<>>)
    ELSE Response(404, NoData, <<"No", "space", "found", "with", "key">>)

\* GET /content/search: the matches, or 400 when the service cannot parse the cql.
ServerSearch ==
    {Response(200, ListData(n), <<>>) : n \in 0..Cardinality(PageIds)}
        \cup {Response(400, NoData, <<"Could", "not", "parse", "cql">>)}

\* The id the service gives the next page it creates.
FreeIds == {id \in PageIds : ~pages[id].exists}
NextId == CHOOSE id \in FreeIds : TRUE

\* POST /content: the service assigns the id and version 1.
ServerCreatePage(body) ==
    IF body.space \notin ExistingSpaces
    THEN Response(404, NoData, <<"No", "space", "found", "with", "key">>)
    ELSE Response(200, [id |-> NextId, space |-> body.space,
                        spaceId |-> SpaceId(body.space), title |-> body.title,
                        content |-> body.value, version |-> 1, size |-> 0], <<>>)

\* GET /content/{id}/label
ServerGetLabels(id) ==
    IF pages[id].exists THEN Response(200, ListData(Cardinality(labels[id])), <<>>)
    ELSE PageMissing

\* Statuses the service can give a request it rejects; the rejection of a
\* duplicate label has no status of its own.
RejectStatuses == {400, 404, 409}

\* POST /content/{id}/label: a label the page already has is rejected, and only the
\* message says why.
ServerAddLabel(id, name) ==
    IF ~pages[id].exists THEN {PageMissing}
    ELSE IF name \in labels[id]
    THEN {Response(st, NoData, <<"content", "already", "has", "the", "label", name>>) :
             st \in RejectStatuses}
    ELSE {Response(200, [NoData EXCEPT !.title = name], <<>>)}

\* DELETE /content/{id}/label?name=: 404 for a missing page and for a missing label,
\* told apart by the message only.
ServerRemoveLabel(id, name) ==
    IF ~pages[id].exists THEN PageMissing
    ELSE IF name \notin labels[id]
    THEN Response(404, NoData, <<"The", "label", name, "is", "not", "on", "the", "content">>)
    ELSE Response(204, NoData, <<>>)

-----------------------------------------------------------------------------
(* Results of an adapter operation                                         *)

NoRet ==
    [type |-> "none", id |-> "", space |-> "", spaceId |-> "", title |-> "",
     content |-> "", version |-> 0, size |-> 0]

\* The value an operation returns, built from the response data d.
Ret(type, d) ==
    [type |-> type, id |-> d.id, space |-> d.space, spaceId |-> d.spaceId,
     title |-> d.title, content |-> d.content, version |-> d.version, size |-> d.size]

\* A Page as the legacy client shapes it: spaceId is page.space?.id, the space key
\* is not carried over.
Page(d) == [Ret("page", d) EXCEPT !.space = Undefined]

\* raised is the error as it was first thrown inside the operation, error the one
\* that leaves it.
Return(ret) == [outcome |-> "ok", raised |-> NoError, error |-> NoError, ret |-> ret]
Throw(e) == [outcome |-> "err", raised |-> e, error |-> e, ret |-> NoRet]

\* await this.client.<method>(...) outside any try: the response, or the AxiosError.
Await(r, ret) == IF Ok(r) THEN Return(ret) ELSE Throw(AxiosError(r))

\* The same followed by the reading of properties of response.data, which throws a
\* TypeError when the data is null.
Reshape(r, ret) ==
    IF ~Ok(r) THEN Throw(AxiosError(r))
    ELSE IF r.data = Null THEN Throw(TypeError)
    ELSE Return(ret)

\* try { t } catch (error) { throw rethrown }, rethrown being what the catch block
\* makes of t.error.
TryCatch(t, rethrown) ==
    IF t.outcome = "err" THEN [Throw(rethrown) EXCEPT !.raised = t.raised] ELSE t

\* A request body; version Absent is a body that has no version member.
NoBody == [space |-> "", title |-> "", value |-> "", version |-> Absent]
NoRequest == [cql |-> <<>>, limit |-> 0, start |-> 0, body |-> NoBody]
NoArgs == [query |-> <<>>, limit |-> 0, start |-> 0]

\* The record of a finished invocation.
Finished(op, surface, id, name, req, r, res) ==
    [op |-> op, surface |-> surface, pageId |-> id, label |-> name, args |-> NoArgs,
     request |-> req, requests |-> 1, status |-> r.status, message |-> r.message,
     outcome |-> res.outcome, raised |-> res.raised, error |-> res.error,
     ret |-> res.ret]

NoCall ==
    [op |-> "none", surface |-> "legacy", pageId |-> "", label |-> "",
     args |-> NoArgs, request |-> NoRequest, requests |-> 0, status |-> 0,
     message |-> <<>>,
     outcome |-> "none", raised |-> NoError, error |-> NoError, ret |-> NoRet]

-----------------------------------------------------------------------------
(* Legacy client: space and page reads                                     *)

getConfluenceSpaces_result(r) == Reshape(r, Ret("list", r.data))

getConfluenceSpaces ==
    /\ \E r \in Wire({ServerGetSpaces}) :
          last' = Finished("getConfluenceSpaces", "legacy", "", "", NoRequest, r,
                           getConfluenceSpaces_result(r))
    /\ UNCHANGED <<pages, labels, upd>>

getConfluenceSpace_result(r) == Reshape(r, Ret("space", r.data))

getConfluenceSpace(spaceKey) ==
    /\ \E r \in Wire({ServerGetSpace(spaceKey)}) :
          last' = Finished("getConfluenceSpace", "legacy", "", "", NoRequest, r,
                           getConfluenceSpace_result(r))
    /\ UNCHANGED <<pages, labels, upd>>

getConfluencePages_result(r) == Reshape(r, Ret("list", r.data))

getConfluencePages(spaceKey) ==
    /\ \E r \in Wire(ServerSearch) :
          last' = Finished("getConfluencePages", "legacy", "", "", NoRequest, r,
                           getConfluencePages_result(r))
    /\ UNCHANGED <<pages, labels, upd>>

searchPageByName_catch(e) ==
    IF isAxiosError(e)
    THEN ConfluenceError(<<"Failed to search for page: ">> \o e.message, "UNKNOWN")
    ELSE e

searchPageByName_result(r) ==
    LET t == Reshape(r, Ret("list", r.data)) IN TryCatch(t, searchPageByName_catch(t.error))

searchPageByName(title) ==
    /\ \E r \in Wire(ServerSearch) :
          last' = Finished("searchPageByName", "legacy", "", "", NoRequest, r,
                           searchPageByName_result(r))
    /\ UNCHANGED <<pages, labels, upd>>

getPageContent_try(r) ==
    IF ~Ok(r) THEN Throw(AxiosError(r))
    ELSE IF r.data = Null THEN Throw(TypeError)
    ELSE IF Falsy(r.data.content)
    THEN Throw(ConfluenceError(<<"Page content is empty or not accessible">>,
                               "EMPTY_CONTENT"))
    ELSE Return(Ret("string", r.data))

getPageContent_catch(e) ==
    IF isAxiosError(e)
    THEN IF e.status = 404
         THEN ConfluenceError(<<"Page content not found">>, "PAGE_NOT_FOUND")
         ELSE IF e.status = 403
         THEN ConfluenceError(<<"Insufficient permissions to access page content">>,
                              "INSUFFICIENT_PERMISSIONS")
         ELSE ConfluenceError(<<"Failed to get page content: ">> \o e.message, "UNKNOWN")
    ELSE e

getPageContent_result(r) ==
    LET t == getPageContent_try(r) IN TryCatch(t, getPageContent_catch(t.error))

getPageContent(pageId) ==
    /\ \E r \in Wire({ServerGetPage(pageId, TRUE)}) :
          last' = Finished("getPageContent", "legacy", pageId, "", NoRequest, r,
                           getPageContent_result(r))
    /\ UNCHANGED <<pages, labels, upd>>

\* Typed getPageContent: GET /pages/{id}/body, response.data returned as it is.
typed_getPageContent_result(r) == Await(r, Ret("object", r.data))

typed_getPageContent(pageId) ==
    /\ \E r \in Wire({ServerGetPage(pageId, TRUE)}) :
          last' = Finished("getPageContent", "typed", pageId, "", NoRequest, r,
                           typed_getPageContent_result(r))
    /\ UNCHANGED <<pages, labels, upd>>

getConfluencePage_catch(e) ==
    IF isAxiosError(e) THEN e
    ELSE Error(<<"Failed to fetch page content">>)

\* The Page built from response.data, body included.
getConfluencePage_page_noBody(page) == Page([page EXCEPT !.content = Undefined])
getConfluencePage_page(page) == Page(page)

getConfluencePage_result(r) ==
    LET t == Reshape(r, getConfluencePage_page(r.data))
    IN TryCatch(t, getConfluencePage_catch(t.error))

getConfluencePage(pageId) ==
    /\ \E r \in Wire({ServerGetPage(pageId, TRUE)}) :
          last' = Finished("getConfluencePage", "legacy", pageId, "", NoRequest, r,
                           getConfluencePage_result(r))
    /\ UNCHANGED <<pages, labels, upd>>

\* The request body of POST /content: no version is supplied.
createConfluencePage_body(spaceKey, title, content) ==
    [space |-> spaceKey, title |-> title, value |-> content, version |-> Absent]

\* The returned Page has no body field.
createConfluencePage_result(r) ==
    Reshape(r, Page([r.data EXCEPT !.content = Undefined]))

createConfluencePage(spaceKey, title, content) ==
    /\ FreeIds # {}
    /\ LET body == createConfluencePage_body(spaceKey, title, content)
       IN \E r \in Transport({ServerCreatePage(body)}) :
          /\ last' = Finished("createConfluencePage", "legacy", r.data.id, "",
                              [NoRequest EXCEPT !.body = body], r,
                              createConfluencePage_result(r))
          /\ pages' = IF Ok(r) THEN [pages EXCEPT ![r.data.id] = Stored(r)] ELSE pages
    /\ UNCHANGED <<labels, upd>>

-----------------------------------------------------------------------------
(* Legacy client: search                                                   *)

\* Longest query, in symbols, a caller passes to searchConfluenceContent.
MaxQueryLen == 5

\* A query is a sequence of these symbols: the word type, a blank, the equals
\* sign, and any other word.
QuerySymbols == {"type", " ", "=", "a"}
Queries == UNION {[1..n -> QuerySymbols] : n \in 0..MaxQueryLen}

\* limit and start as the caller passes them.
DefaultLimit == 25
DefaultStart == 0
Default(x, d) == IF x = Absent THEN d ELSE x

\* `text ~ "${query}"`
TextMatch(query) == <<"text", " ", "~", " ", "\"">> \o query \o <<"\"">>

\* The params of GET /content/search.
searchConfluenceContent_params(query, limit, start) ==
    [cql |-> IF Includes(query, <<"type", " ", "=">>) THEN query ELSE TextMatch(query),
     limit |-> Default(limit, DefaultLimit),
     start |-> Default(start, DefaultStart),
     body |-> NoBody]

searchConfluenceContent_catch(e) ==
    IF isAxiosError(e)
    THEN ConfluenceError(<<"Failed to search content: ">> \o e.message, "SEARCH_FAILED")
    ELSE e

searchConfluenceContent_result(r) ==
    LET t == Reshape(r, Ret("list", r.data))
    IN TryCatch(t, searchConfluenceContent_catch(t.error))

searchConfluenceContent(query, limit, start) ==
    /\ \E r \in Wire(ServerSearch) :
          last' = [Finished("searchConfluenceContent", "legacy", "", "",
                            searchConfluenceContent_params(query, limit, start), r,
                            searchConfluenceContent_result(r))
                   EXCEPT !.args = [query |-> query, limit |-> limit, start |-> start]]
    /\ UNCHANGED <<pages, labels, upd>>

-----------------------------------------------------------------------------
(* Legacy client: labels                                                   *)

getConfluenceLabels_result(r) == Reshape(r, Ret("list", r.data))

getConfluenceLabels(pageId) ==
    /\ \E r \in Wire({ServerGetLabels(pageId)}) :
          last' = Finished("getConfluenceLabels", "legacy", pageId, "", NoRequest, r,
                           getConfluenceLabels_result(r))
    /\ UNCHANGED <<pages, labels, upd>>

addConfluenceLabel_catch_noDuplicateCheck(e, label) ==
    IF isAxiosError(e)
    THEN IF e.status = 404 THEN ConfluenceError(<<"Page not found">>, "PAGE_NOT_FOUND")
         ELSE ConfluenceError(<<"Failed to add label: ">> \o e.message, "UNKNOWN")
    ELSE e
addConfluenceLabel_catch(e, label) ==
    IF isAxiosError(e)
    THEN IF e.status = 404 THEN ConfluenceError(<<"Page not found">>, "PAGE_NOT_FOUND")
         ELSE IF Includes(e.data, <<"already", "has", "the", "label">>)
         THEN ConfluenceError(<<"Label \"", label, "\" already exists on this page">>,
                              "LABEL_EXISTS")
         ELSE ConfluenceError(<<"Failed to add label: ">> \o e.message, "UNKNOWN")
    ELSE e

addConfluenceLabel_result(r, label) ==
    LET t == Reshape(r, Ret("label", r.data))
    IN TryCatch(t, addConfluenceLabel_catch(t.error, label))

addConfluenceLabel(pageId, name) ==
    /\ \E r \in Transport(ServerAddLabel(pageId, name)) :
          /\ last' = Finished("addConfluenceLabel", "legacy", pageId, name, NoRequest, r,
                              addConfluenceLabel_result(r, name))
          /\ labels' = IF Ok(r) THEN [labels EXCEPT ![pageId] = @ \cup {name}]
                       ELSE labels
    /\ UNCHANGED <<pages, upd>>

removeConfluenceLabel_catch_swapped(e, label) ==
    IF isAxiosError(e)
    THEN IF e.status = 404
         THEN IF Includes(e.data, <<"label">>)
              THEN ConfluenceError(<<"Page not found">>, "PAGE_NOT_FOUND")
              ELSE ConfluenceError(<<"Label \"", label, "\" not found on page">>,
                                   "LABEL_NOT_FOUND")
         ELSE ConfluenceError(<<"Failed to remove label: ">> \o e.message, "UNKNOWN")
    ELSE e
removeConfluenceLabel_catch(e, label) ==
    IF isAxiosError(e)
    THEN IF e.status = 404
         THEN IF Includes(e.data, <<"label">>)
              THEN ConfluenceError(<<"Label \"", label, "\" not found on page">>,
                                   "LABEL_NOT_FOUND")
              ELSE ConfluenceError(<<"Page not found">>, "PAGE_NOT_FOUND")
         ELSE ConfluenceError(<<"Failed to remove label: ">> \o e.message, "UNKNOWN")
    ELSE e

removeConfluenceLabel_result(r, label) ==
    LET t == Await(r, NoRet) IN TryCatch(t, removeConfluenceLabel_catch(t.error, label))

removeConfluenceLabel(pageId, name) ==
    /\ \E r \in Transport({ServerRemoveLabel(pageId, name)}) :
          /\ last' = Finished("removeConfluenceLabel", "legacy", pageId, name, NoRequest,
                              r, removeConfluenceLabel_result(r, name))
          /\ labels' = IF Ok(r) THEN [labels EXCEPT ![pageId] = @ \ {name}]
                       ELSE labels
    /\ UNCHANGED <<pages, upd>>

-----------------------------------------------------------------------------
(* Legacy client: verifyApiConnection                                      *)

\* Statuses the service can answer the verification read with; 0 is no response.
VerifyStatuses == {0, 200, 400, 401, 403, 404, 500, 503}
VerifyResponses == {Response(s, NoData, <<>>) : s \in VerifyStatuses}

\* this.client.get('/space', { params: { limit: 1 } })
verifyApiConnection_request == [path |-> "/space", limit |-> 1]

\* The try block: the awaited read, then the write to stderr, which throws when the
\* stream is broken.
verifyApiConnection_try(r, stderrBroken) ==
    IF ~Ok(r) THEN Throw(AxiosError(r))
    ELSE IF stderrBroken THEN Throw(Error(<<"write EPIPE">>))
    ELSE Return(NoRet)

\* The errorMessage the catch block settles on for the caught error.
verifyApiConnection_errorMessage_above500(e) ==
    IF isAxiosError(e)
    THEN IF e.status = 401
         THEN <<"Authentication failed: Invalid API token or email">>
         ELSE IF e.status = 403
         THEN <<"Authorization failed: Insufficient permissions">>
         ELSE IF e.status = 404
         THEN <<"API endpoint not found: Check Confluence domain">>
         ELSE IF e.status > 500
         THEN <<"Confluence server error: API may be temporarily unavailable">>
         ELSE <<"Failed to connect to Confluence API">>
    ELSE <<"Failed to connect to Confluence API">>
verifyApiConnection_errorMessage(e) ==
    IF isAxiosError(e)
    THEN IF e.status = 401
         THEN <<"Authentication failed: Invalid API token or email">>
         ELSE IF e.status = 403
         THEN <<"Authorization failed: Insufficient permissions">>
         ELSE IF e.status = 404
         THEN <<"API endpoint not found: Check Confluence domain">>
         ELSE IF e.status >= 500
         THEN <<"Confluence server error: API may be temporarily unavailable">>
         ELSE <<"Failed to connect to Confluence API">>
    ELSE <<"Failed to connect to Confluence API">>

verifyApiConnection_catch(e) == Error(verifyApiConnection_errorMessage(e))

verifyApiConnection_result(r, stderrBroken) ==
    LET t == verifyApiConnection_try(r, stderrBroken)
    IN TryCatch(t, verifyApiConnection_catch(t.error))

-----------------------------------------------------------------------------
(* The MCP server process (src/src/index.ts)                               *)

\* Most SSE connections opened in one run.
MaxConnections == 2

\* this.transport = null
NoTransport == 0
\* A message that came in over the stdio transport.
Stdio == -2

\* (args || {}) with every member missing.
NoToolArgs ==
    [spaceId |-> Undefined, pageId |-> Undefined, title |-> Undefined,
     content |-> Undefined, version |-> Absent, query |-> <<Undefined>>,
     label |-> Undefined]

\* The tool call that ended last.
NoTool ==
    [name |-> "", args |-> NoToolArgs, via |-> NoTransport, outcome |-> "none",
     thrown |-> NoError, error |-> NoError, result |-> NoRet]

NoVerify ==
    [request |-> [path |-> "", limit |-> 0], requests |-> 0, status |-> 0,
     outcome |-> "none", error |-> NoError]

NoPost == [status |-> 0, handledBy |-> NoTransport, latest |-> 0]

\* No server process: the adapter is called directly.
NoServer ==
    [phase |-> "none", exitCode |-> Absent, handlers |-> FALSE, stdio |-> FALSE,
     verify |-> NoVerify, transport |-> NoTransport, opened |-> 0, closed |-> {},
     post |-> NoPost, tool |-> NoTool]

\* The process once `new ConfluenceServer()` and `server.run()` have returned:
\* initialize() has built the Server and the client and awaits verifyApiConnection,
\* whose read is in flight; run() has started the listener, and connected the stdio
\* transport when USE_STDIO is "true". No request handler is registered.
Booted(useStdio) ==
    [NoServer EXCEPT !.phase = "verifying", !.stdio = useStdio,
                     !.verify = [NoVerify EXCEPT !.request = verifyApiConnection_request,
                                                 !.requests = 1,
                                                 !.outcome = "pending"]]

\* initialize() from its await on: verifyApiConnection settles; on success
\* setupHandlers() registers the handlers, on failure the error is rethrown and the
\* constructor's catch ends the process with process.exit(1).
initialize_ignoreFailure ==
    /\ srv.phase = "verifying"
    /\ \E r \in VerifyResponses, stderrBroken \in BOOLEAN :
          LET res == verifyApiConnection_result(r, stderrBroken)
              verify == [srv.verify EXCEPT !.status = r.status, !.outcome = res.outcome,
                                           !.error = res.error]
          IN srv' = [srv EXCEPT !.verify = verify, !.phase = "ready", !.handlers = TRUE]
    /\ UNCHANGED <<pages, labels, upd, last>>
initialize ==
    /\ srv.phase = "verifying"
    /\ \E r \in VerifyResponses, stderrBroken \in BOOLEAN :
          LET res == verifyApiConnection_result(r, stderrBroken)
              verify == [srv.verify EXCEPT !.status = r.status, !.outcome = res.outcome,
                                           !.error = res.error]
          IN srv' = IF res.outcome = "ok"
                    THEN [srv EXCEPT !.verify = verify, !.phase = "ready",
                                     !.handlers = TRUE]
                    ELSE [srv EXCEPT !.verify = verify, !.phase = "exited",
                                     !.exitCode = 1]
    /\ UNCHANGED <<pages, labels, upd, last>>

\* SIGINT: the handler initialize() installs after setupHandlers() closes the server
\* and exits with 0; before that the signal ends the process.
sigint ==
    /\ srv.phase \in {"verifying", "ready"}
    /\ srv' = [srv EXCEPT !.phase = "exited",
                          !.exitCode = IF srv.handlers THEN 0 ELSE 130]
    /\ UNCHANGED <<pages, labels, upd, last>>

\* app.get("/sse"): a new SSEServerTransport becomes this.transport.
get_sse_keepFirst ==
    /\ srv.phase \in {"verifying", "ready"}
    /\ srv.opened < MaxConnections
    /\ srv' = [srv EXCEPT !.opened = @ + 1,
                          !.transport = IF srv.transport = NoTransport
                                        THEN srv.opened + 1 ELSE srv.transport]
    /\ UNCHANGED <<pages, labels, upd, last>>
get_sse ==
    /\ srv.phase \in {"verifying", "ready"}
    /\ srv.opened < MaxConnections
    /\ srv' = [srv EXCEPT !.opened = @ + 1, !.transport = srv.opened + 1]
    /\ UNCHANGED <<pages, labels, upd, last>>

\* The client of SSE connection t goes away; this.transport is left as it is.
sse_close(t) ==
    /\ srv.phase \in {"verifying", "ready"}
    /\ t \in 1..srv.opened
    /\ t \notin srv.closed
    /\ srv' = [srv EXCEPT !.closed = @ \cup {t}]
    /\ UNCHANGED <<pages, labels, upd, last>>

\* The tools the CallTool handler has a case for.
ToolNames ==
    {"list_confluence_spaces", "get_confluence_space", "list_confluence_pages",
     "get_confluence_page", "find_confluence_page", "create_confluence_page",
     "update_confluence_page", "search_confluence_pages", "get_confluence_labels",
     "add_confluence_label", "remove_confluence_label"}

\* new McpError(code, message); the SDK prefixes the message with the code.
McpError(code, message) ==
    [class |-> "McpError", code |-> code, status |-> 0, data |-> <<>>,
     message |-> <<"MCP error ", code, ": ">> \o message]

\* !query, the query being a string or undefined.
FalsyQuery(q) == q = <<Undefined>> \/ q = <<>>

\* The check each case of the switch makes before it calls its handler: TRUE when
\* the case throws InvalidParams.
CallTool_invalid_versionUnchecked(name, a) ==
    CASE name \in {"get_confluence_space", "list_confluence_pages"} -> Falsy(a.spaceId)
      [] name \in {"get_confluence_page", "get_confluence_labels"} -> Falsy(a.pageId)
      [] name = "find_confluence_page" -> Falsy(a.title)
      [] name = "create_confluence_page" ->
            Falsy(a.spaceId) \/ Falsy(a.title) \/ Falsy(a.content)
      [] name = "update_confluence_page" ->
            Falsy(a.pageId) \/ Falsy(a.title) \/ Falsy(a.content)
      [] name = "search_confluence_pages" -> FalsyQuery(a.query)
      [] name \in {"add_confluence_label", "remove_confluence_label"} ->
            Falsy(a.pageId) \/ Falsy(a.label)
      [] OTHER -> FALSE
CallTool_invalid(name, a) ==
    CASE name \in {"get_confluence_space", "list_confluence_pages"} -> Falsy(a.spaceId)
      [] name \in {"get_confluence_page", "get_confluence_labels"} -> Falsy(a.pageId)
      [] name = "find_confluence_page" -> Falsy(a.title)
      [] name = "create_confluence_page" ->
            Falsy(a.spaceId) \/ Falsy(a.title) \/ Falsy(a.content)
      [] name = "update_confluence_page" ->
            Falsy(a.pageId) \/ Falsy(a.title) \/ Falsy(a.content) \/ a.version = Absent
      [] name = "search_confluence_pages" -> FalsyQuery(a.query)
      [] name \in {"add_confluence_label", "remove_confluence_label"} ->
            Falsy(a.pageId) \/ Falsy(a.label)
      [] OTHER -> FALSE

\* The message of the InvalidParams error of each case.
CallTool_required(name) ==
    CASE name \in {"get_confluence_space", "list_confluence_pages"} ->
            <<"spaceId is required">>
      [] name \in {"get_confluence_page", "get_confluence_labels"} ->
            <<"pageId is required">>
      [] name = "find_confluence_page" -> <<"title is required">>
      [] name = "create_confluence_page" -> <<"spaceId, title, and content are required">>
      [] name = "update_confluence_page" ->
            <<"pageId, title, content, and version are required">>
      [] name = "search_confluence_pages" -> <<"query is required">>
      [] OTHER -> <<"pageId and label are required">>

\* What the switch throws before any handler runs; NoError when a handler is called.
CallTool_switch(name, a) ==
    IF name \notin ToolNames
    THEN McpError("MethodNotFound", <<"Unknown tool: ", name>>)
    ELSE IF CallTool_invalid(name, a)
    THEN McpError("InvalidParams", CallTool_required(name))
    ELSE NoError

\* The catch block of the CallTool handler.
CallTool_catch_rethrowAll(error) == error
CallTool_catch(error) ==
    IF error.class = "McpError" THEN error
    ELSE McpError("InternalError", <<"Internal server error: ">> \o error.message)

\* The caller whose updatePage invocations the update_confluence_page tool makes.
ToolCaller == "a"

\* The handler of each tool: it calls the adapter operation of the tool with the
\* arguments it was given, returns what the operation returns and lets what the
\* operation throws through.
Handler(name, a) ==
    CASE name = "list_confluence_spaces" -> getConfluenceSpaces
      [] name = "get_confluence_space" -> getConfluenceSpace(a.spaceId)
      [] name = "list_confluence_pages" -> getConfluencePages(a.spaceId)
      [] name = "get_confluence_page" -> getConfluencePage(a.pageId)
      [] name = "find_confluence_page" -> searchPageByName(a.title)
      [] name = "create_confluence_page" ->
            createConfluencePage(a.spaceId, a.title, a.content)
      [] name = "update_confluence_page" ->
            updateConfluencePage_read(ToolCaller, a.pageId, a.title, a.content, a.version)
      [] name = "search_confluence_pages" ->
            searchConfluenceContent(a.query, Absent, Absent)
      [] name = "get_confluence_labels" -> getConfluenceLabels(a.pageId)
      [] name = "add_confluence_label" -> addConfluenceLabel(a.pageId, a.label)
      [] name = "remove_confluence_label" -> removeConfluenceLabel(a.pageId, a.label)

\* The tool call ends by throwing: thrown is what reached the catch block.
ToolThrew(name, a, via, thrown, rethrown) ==
    [NoTool EXCEPT !.name = name, !.args = a, !.via = via, !.outcome = "error",
                   !.thrown = thrown, !.error = rethrown]

\* The tool call ends as the adapter invocation c it made ended.
ToolEnded(name, a, via, c) ==
    IF c.outcome = "ok"
    THEN [NoTool EXCEPT !.name = name, !.args = a, !.via = via, !.outcome = "result",
                        !.result = c.ret]
    ELSE ToolThrew(name, a, via, c.error, CallTool_catch(c.error))

\* The update_confluence_page call that is between its read and its write.
ToolPending(name, a, via) ==
    [NoTool EXCEPT !.name = name, !.args = a, !.via = via, !.outcome = "pending"]

\* The Page updateConfluencePage returns.
updateConfluencePage_ret(c) ==
    [outcome |-> c.outcome, error |-> c.error,
     ret |-> [NoRet EXCEPT !.type = "page", !.id = c.pageId, !.title = c.title,
                           !.version = c.sent]]

\* The CallTool request handler, s being the server as the delivery of the message
\* left it.
CallTool(s, name, a, via) ==
    LET thrown == CallTool_switch(name, a) IN
    IF thrown # NoError
    THEN /\ srv' = [s EXCEPT !.tool = ToolThrew(name, a, via, thrown, CallTool_catch(thrown))]
         /\ UNCHANGED <<pages, labels, upd, last>>
    ELSE /\ Handler(name, a)
         /\ srv' = [s EXCEPT !.tool =
                      IF name # "update_confluence_page" THEN ToolEnded(name, a, via, last')
                      ELSE IF upd'[ToolCaller].pc = "write" THEN ToolPending(name, a, via)
                      ELSE ToolEnded(name, a, via, updateConfluencePage_ret(upd'[ToolCaller]))]

\* The update_confluence_page call in flight makes its write and ends.
CallTool_resume ==
    /\ srv.phase = "ready"
    /\ updateConfluencePage_write(ToolCaller)
    /\ srv' = [srv EXCEPT !.tool =
                 ToolEnded("update_confluence_page",
                           [NoToolArgs EXCEPT !.pageId = upd[ToolCaller].pageId,
                                              !.title = upd[ToolCaller].title,
                                              !.content = upd[ToolCaller].content,
                                              !.version = upd[ToolCaller].version],
                           NoTransport, updateConfluencePage_ret(upd'[ToolCaller]))]

\* The Server of the SDK given a tools/call request: the registered handler, or a
\* MethodNotFound error when none is registered.
Dispatch(s, name, a, via) ==
    IF s.handlers THEN CallTool(s, name, a, via)
    ELSE /\ srv' = [s EXCEPT !.tool =
                      LET e == McpError("MethodNotFound", <<"Method not found">>)
                      IN ToolThrew(name, a, via, e, e)]
         /\ UNCHANGED <<pages, labels, upd, last>>

\* app.post("/messages") with a tools/call request in the body.
post_messages(name, a) ==
    /\ srv.phase \in {"verifying", "ready"}
    /\ IF srv.transport = NoTransport
       THEN /\ srv' = [srv EXCEPT !.post = [status |-> 400, handledBy |-> NoTransport,
                                            latest |-> srv.opened]]
            /\ UNCHANGED <<pages, labels, upd, last>>
       ELSE IF srv.transport \in srv.closed
       THEN /\ srv' = [srv EXCEPT !.post = [status |-> 500, handledBy |-> srv.transport,
                                            latest |-> srv.opened]]
            /\ UNCHANGED <<pages, labels, upd, last>>
       ELSE Dispatch([srv EXCEPT !.post = [status |-> 202, handledBy |-> srv.transport,
                                           latest |-> srv.opened]],
                     name, a, srv.transport)

\* A tools/call request read from stdin by the StdioServerTransport.
stdio_message(name, a) ==
    /\ srv.phase \in {"verifying", "ready"}
    /\ srv.stdio
    /\ Dispatch(srv, name, a, Stdio)

-----------------------------------------------------------------------------
\* The service before any call: page p1 in space S1 at version 1, no labels.
InitService ==
    /\ pages = [id \in PageIds |->
                  IF id = "p1"
                  THEN [exists |-> TRUE, space |-> "S1", title |-> "T1",
                        content |-> "C1", version |-> 1]
                  ELSE NoPage]
    /\ labels = [id \in PageIds |-> {}]
    /\ upd = [p \in Procs |-> Idle]

Init == InitService /\ last = NoCall /\ srv = NoServer

Next ==
    \/ \E p \in Procs, in \in UpdateInputs, v \in 1..MaxVersion :
          updateConfluencePage_read(p, in[1], in[2], in[3], v) /\ UNCHANGED srv
    \/ \E p \in Procs : updateConfluencePage_write(p) /\ UNCHANGED srv
    \/ \E p \in Procs, in \in UpdateInputs, v \in 1..MaxVersion :
          updatePage(p, in[1], in[2], in[3], v) /\ UNCHANGED srv

Spec == Init /\ [][Next]_vars

\* One caller invoking the operations other than updatePage, one at a time.
CreateInputs == {<<"S1", "T2", "">>, <<"S1", "T2", "C1">>, <<"S0", "T2", "C1">>}
OpsQueries == {<<"a">>, <<"type", " ", "=", " ", "a">>}

NextOps ==
    \/ getConfluenceSpaces /\ UNCHANGED srv
    \/ \E k \in SpaceKeys : getConfluenceSpace(k) /\ UNCHANGED srv
    \/ \E k \in SpaceKeys : getConfluencePages(k) /\ UNCHANGED srv
    \/ \E t \in Titles : searchPageByName(t) /\ UNCHANGED srv
    \/ \E id \in PageIds : getPageContent(id) /\ UNCHANGED srv
    \/ \E id \in PageIds : typed_getPageContent(id) /\ UNCHANGED srv
    \/ \E id \in PageIds : getConfluencePage(id) /\ UNCHANGED srv
    \/ \E in \in CreateInputs : createConfluencePage(in[1], in[2], in[3]) /\ UNCHANGED srv
    \/ \E q \in OpsQueries : searchConfluenceContent(q, Absent, Absent) /\ UNCHANGED srv
    \/ \E id \in PageIds : getConfluenceLabels(id) /\ UNCHANGED srv
    \/ \E id \in PageIds, n \in LabelNames : addConfluenceLabel(id, n) /\ UNCHANGED srv
    \/ \E id \in PageIds, n \in LabelNames : removeConfluenceLabel(id, n) /\ UNCHANGED srv

SpecOps == Init /\ [][NextOps]_vars

\* One caller invoking every operation of both clients, updatePage included.
AdapterUpdate == <<"p1", "T2", "C1">>

NextAdapter ==
    \/ getConfluenceSpaces /\ UNCHANGED srv
    \/ getConfluenceSpace("S1") /\ UNCHANGED srv
    \/ getConfluencePages("S1") /\ UNCHANGED srv
    \/ searchPageByName("T1") /\ UNCHANGED srv
    \/ getPageContent("p1") /\ UNCHANGED srv
    \/ typed_getPageContent("p1") /\ UNCHANGED srv
    \/ getConfluencePage("p1") /\ UNCHANGED srv
    \/ createConfluencePage("S1", "T1", "C1") /\ UNCHANGED srv
    \/ searchConfluenceContent(<<"a">>, Absent, Absent) /\ UNCHANGED srv
    \/ getConfluenceLabels("p1") /\ UNCHANGED srv
    \/ addConfluenceLabel("p1", "x") /\ UNCHANGED srv
    \/ removeConfluenceLabel("p1", "x") /\ UNCHANGED srv
    \/ \E v \in 1..MaxVersion :
          updateConfluencePage_read(ToolCaller, AdapterUpdate[1], AdapterUpdate[2],
                                    AdapterUpdate[3], v) /\ UNCHANGED srv
    \/ updateConfluencePage_write(ToolCaller) /\ UNCHANGED srv
    \/ \E id \in PageIds :
          updatePage(ToolCaller, id, AdapterUpdate[2], AdapterUpdate[3], 1)
             /\ UNCHANGED srv

SpecAdapter == Init /\ [][NextAdapter]_vars

\* searchConfluenceContent over every query of up to MaxQueryLen symbols.
SearchLimits == {Absent, 10}
SearchStarts == {Absent, 5}

\* A searchConfluenceContent call about to be made, with its arguments.
Pending(q, l, st) ==
    [NoCall EXCEPT !.op = "pending",
                   !.args = [query |-> q, limit |-> l, start |-> st]]

InitSearch ==
    /\ InitService
    /\ \E q \in Queries, l \in SearchLimits, st \in SearchStarts :
          last = Pending(q, l, st)
    /\ srv = NoServer

NextSearch ==
    /\ last.op = "pending"
    /\ searchConfluenceContent(last.args.query, last.args.limit, last.args.start)
    /\ UNCHANGED srv

SpecSearch == InitSearch /\ [][NextSearch]_vars

\* The server process from its start: verification, SSE connections coming and
\* going, tools/call requests over POST /messages and over stdio.
InitStartup ==
    /\ InitService
    /\ last = NoCall
    /\ \E useStdio \in BOOLEAN : srv = Booted(useStdio)

StartupCalls ==
    {<<"list_confluence_spaces", NoToolArgs>>,
     <<"get_confluence_page", [NoToolArgs EXCEPT !.pageId = "p1"]>>,
     <<"add_confluence_label", [NoToolArgs EXCEPT !.pageId = "p1", !.label = "x"]>>}

NextStartup ==
    \/ initialize
    \/ sigint
    \/ get_sse
    \/ \E t \in 1..MaxConnections : sse_close(t)
    \/ \E call \in StartupCalls : post_messages(call[1], call[2])
    \/ \E call \in StartupCalls : stdio_message(call[1], call[2])

SpecStartup == InitStartup /\ [][NextStartup]_vars

\* The server once verification has succeeded and one SSE connection is open,
\* given every kind of tools/call request.
InitDispatch ==
    /\ InitService
    /\ last = NoCall
    /\ srv = [Booted(FALSE) EXCEPT !.phase = "ready", !.handlers = TRUE,
                                   !.verify.status = 200, !.verify.outcome = "ok",
                                   !.opened = 1, !.transport = 1]

ToolCalls ==
    {<<"list_confluence_spaces", NoToolArgs>>,
     <<"delete_confluence_page", [NoToolArgs EXCEPT !.pageId = "p1"]>>}
    \cup {<<n, [NoToolArgs EXCEPT !.spaceId = k]>> :
             n \in {"get_confluence_space", "list_confluence_pages"},
             k \in {Undefined, "S1"}}
    \cup {<<n, [NoToolArgs EXCEPT !.pageId = id]>> :
             n \in {"get_confluence_page", "get_confluence_labels"},
             id \in {Undefined, "p1"}}
    \cup {<<"find_confluence_page", [NoToolArgs EXCEPT !.title = t]>> :
             t \in {Undefined, "T1"}}
    \cup {<<"create_confluence_page",
            [NoToolArgs EXCEPT !.spaceId = in[1], !.title = in[2], !.content = in[3]]>> :
             in \in {<<"S1", "T2", "C1">>, <<"S1", "T2", Undefined>>}}
    \cup {<<"update_confluence_page",
            [NoToolArgs EXCEPT !.pageId = in[1], !.title = in[2], !.content = in[3],
                               !.version = in[4]]>> :
             in \in {<<"p1", "T2", "C1", 1>>, <<Undefined, "T2", "C1", 1>>,
                     <<"p1", "T2", "C1", Absent>>}}
    \cup {<<"search_confluence_pages", [NoToolArgs EXCEPT !.query = q]>> :
             q \in {<<Undefined>>, <<"a">>}}
    \cup {<<n, [NoToolArgs EXCEPT !.pageId = in[1], !.label = in[2]]>> :
             n \in {"add_confluence_label", "remove_confluence_label"},
             in \in {<<"p1", "x">>, <<"p1", Undefined>>}}

NextDispatch ==
    \/ \E call \in ToolCalls : post_messages(call[1], call[2])
    \/ CallTool_resume

SpecDispatch == InitDispatch /\ [][NextDispatch]_vars


-----------------------------------------------------------------------------
(* Claims about updatePage                                                 *)

\* Caller p's updatePage invocation ends in this step.
Completes(p) == upd'[p] # upd[p] /\ upd'[p].pc = "done"

\* The stored page is exactly what the finished invocation c wrote.
AsWritten(c) ==
    /\ pages[c.pageId].exists
    /\ pages[c.pageId].title = c.title
    /\ pages[c.pageId].content = c.content
    /\ pages[c.pageId].version = c.version + 1

\* C1: once updatePage(id, ..., v) has succeeded and the page is as it wrote it
\* (version v + 1), an updatePage(id, ..., v) that ends afterwards, on either
\* surface, fails and leaves the stored title, content and version untouched.
C1_StaleUpdateRejected ==
    [][\A p, q \in Procs :
         (/\ upd[p].pc = "done" /\ upd[p].outcome = "ok"
          /\ AsWritten(upd[p])
          /\ Completes(q)
          /\ upd'[q].pageId = upd[p].pageId
          /\ upd'[q].version = upd[p].version)
         => (upd'[q].outcome = "err" /\ pages' = pages)]_vars

C1_Witness ==
    \E p, q \in Procs :
        /\ p # q
        /\ upd[p].pc = "done" /\ upd[p].outcome = "ok" /\ AsWritten(upd[p])
        /\ upd[q].pc = "done" /\ upd[q].outcome = "err" /\ upd[q].status = 409
        /\ ~upd[q].fresh
        /\ upd[q].pageId = upd[p].pageId /\ upd[q].version = upd[p].version
        /\ upd[q].title # upd[p].title

\* Two finished legacy invocations for the same page with the same expectedVersion
\* whose writes both reached the service's version check.
BothWrote(p, q) ==
    /\ p # q
    /\ upd[p].surface = "legacy" /\ upd[q].surface = "legacy"
    /\ upd[p].pc = "done" /\ upd[q].pc = "done"
    /\ upd[p].pageId = upd[q].pageId /\ upd[p].version = upd[q].version
    /\ upd[p].status \in {200, 409} /\ upd[q].status \in {200, 409}

\* C2: of two legacy updatePage calls for one page with one expectedVersion, however
\* their reads and writes interleave, at most one write is accepted; when both began
\* at that version, exactly one is accepted, the other is rejected by the version
\* check (409), and the page ends at expectedVersion + 1.
C2_OneWriterWins ==
    \A p, q \in Procs :
        BothWrote(p, q) =>
            /\ ~(upd[p].outcome = "ok" /\ upd[q].outcome = "ok")
            /\ (upd[p].fresh /\ upd[q].fresh) =>
                  /\ (upd[p].outcome = "ok") # (upd[q].outcome = "ok")
                  /\ 409 \in {upd[p].status, upd[q].status}
                  /\ pages[upd[p].pageId].version = upd[p].version + 1

C2_Witness ==
    \E p, q \in Procs :
        /\ BothWrote(p, q) /\ upd[p].fresh /\ upd[q].fresh
        /\ upd[p].outcome = "ok" /\ upd[q].status = 409

\* C3: the error of an updatePage rejected for a stale version (409) is of another
\* kind than the error of an updatePage that failed for any other reason.
C3_ConflictIsDistinct ==
    \A p, q \in Procs :
        (/\ upd[p].pc = "done" /\ upd[p].status = 409
         /\ upd[q].pc = "done" /\ upd[q].outcome = "err" /\ upd[q].status # 409)
        => <<upd[p].error.class, upd[p].error.code>>
             # <<upd[q].error.class, upd[q].error.code>>

\* C4: every write updatePage issues, on either surface, carries
\* version.number = expectedVersion + 1, and when expectedVersion is the stored
\* version and the transport does not fail the page ends at expectedVersion + 1.
C4_SubmitsNextVersion ==
    [][\A p \in Procs :
         (Completes(p) /\ upd'[p].sent # 0) =>
            /\ upd'[p].sent = upd'[p].version + 1
            /\ (/\ pages[upd'[p].pageId].exists
                /\ pages[upd'[p].pageId].version = upd'[p].version
                /\ upd'[p].status \notin FaultStatuses)
               => (/\ upd'[p].outcome = "ok"
                   /\ pages'[upd'[p].pageId].version = upd'[p].version + 1)]_vars

C4_Witness ==
    \E p, q \in Procs :
        /\ upd[p].pc = "done" /\ upd[p].surface = "typed" /\ upd[p].outcome = "ok"
        /\ upd[p].sent = upd[p].version + 1
        /\ upd[q].pc = "done" /\ upd[q].surface = "legacy" /\ upd[q].outcome = "ok"
        /\ upd[q].sent = upd[q].version + 1
        /\ pages[upd[q].pageId].version = upd[q].version + 1

-----------------------------------------------------------------------------
(* Claims about error classification, content, labels and search           *)

ErrorKinds ==
    {"PAGE_NOT_FOUND", "INSUFFICIENT_PERMISSIONS", "EMPTY_CONTENT", "LABEL_EXISTS",
     "LABEL_NOT_FOUND", "SEARCH_FAILED", "UNKNOWN"}

IsDomainError(e) == e.class = "ConfluenceError" /\ e.code \in ErrorKinds

\* The finished invocation c met a transport failure: an error status or no response.
TransportFailed(c) == c.op \notin {"none", "pending"} /\ ~Ok(c)

\* C5: an operation that met a transport failure raised a domain error of one of
\* the seven kinds, never the raw transport error.
C5_TransportErrorsClassified ==
    /\ TransportFailed(last) => (last.outcome = "err" /\ IsDomainError(last.error))
    /\ \A p \in Procs :
          (upd[p].pc = "done" /\ ~Ok(upd[p])) =>
              (upd[p].outcome = "err" /\ IsDomainError(upd[p].error))

\* C6: getPageContent, on either surface, raises EMPTY_CONTENT when the fetched page
\* has an empty or missing storage body, and what it returns is never empty.
C6_NoEmptyContent ==
    last.op = "getPageContent" =>
        /\ (Ok(last) /\ last.error # TypeError /\ Falsy(pages[last.pageId].content)) =>
              (last.outcome = "err" /\ last.error.code = "EMPTY_CONTENT")
        /\ last.outcome = "ok" => ~Falsy(last.ret.content)

\* C7: getPage and getPageContent raise PAGE_NOT_FOUND on a 404 response and
\* INSUFFICIENT_PERMISSIONS on a 403 response.
C7_ReadErrorsClassified ==
    (last.op \in {"getConfluencePage", "getPageContent"} /\ last.surface = "legacy") =>
        /\ last.status = 404 => IsKind(last.error, "PAGE_NOT_FOUND")
        /\ last.status = 403 => IsKind(last.error, "INSUFFICIENT_PERMISSIONS")

\* C8: removeLabel answered 404 raises LABEL_NOT_FOUND when the page exists (the
\* label is not on it) and PAGE_NOT_FOUND when the page does not exist; any other
\* transport failure raises UNKNOWN.
C8_RemoveLabelClassified ==
    (last.op = "removeConfluenceLabel" /\ ~Ok(last)) =>
        /\ last.outcome = "err"
        /\ (last.status = 404 /\ pages[last.pageId].exists) =>
              (/\ last.label \notin labels[last.pageId]
               /\ IsKind(last.error, "LABEL_NOT_FOUND"))
        /\ (last.status = 404 /\ ~pages[last.pageId].exists) =>
              IsKind(last.error, "PAGE_NOT_FOUND")
        /\ last.status # 404 => IsKind(last.error, "UNKNOWN")

C8_Witness ==
    /\ last.op = "removeConfluenceLabel"
    /\ last.status = 404
    /\ pages[last.pageId].exists
    /\ labels[last.pageId] # {}
    /\ last.error.code = "LABEL_NOT_FOUND"
    /\ \E id \in PageIds : ~pages[id].exists

\* The finished addLabel c was rejected by the service because the page already
\* carries the label.
DuplicateRejected(c) ==
    /\ c.op = "addConfluenceLabel"
    /\ ~Ok(c)
    /\ c.message = <<"content", "already", "has", "the", "label", c.label>>

\* C9 as stated: a duplicate addLabel raises LABEL_EXISTS whatever the status of
\* the rejection.
C9_DuplicateAnyStatus ==
    DuplicateRejected(last) => IsKind(last.error, "LABEL_EXISTS")

\* C9 as amended: a duplicate addLabel raises LABEL_EXISTS whatever the status of
\* the rejection other than 404, and PAGE_NOT_FOUND when the rejection carries 404;
\* an addLabel that follows a successful addLabel of the same name on the same page
\* changes no label and, unless the transport fails or the rejection carries 404,
\* raises LABEL_EXISTS.
C9_DuplicateUnless404 ==
    [][/\ (DuplicateRejected(last') /\ last'.status # 404) =>
              IsKind(last'.error, "LABEL_EXISTS")
       /\ (DuplicateRejected(last') /\ last'.status = 404) =>
              IsKind(last'.error, "PAGE_NOT_FOUND")
       /\ (/\ last.op = "addConfluenceLabel" /\ last.outcome = "ok"
           /\ last'.op = "addConfluenceLabel" /\ last' # last
           /\ last'.pageId = last.pageId /\ last'.label = last.label)
          => (/\ labels' = labels
              /\ last'.outcome = "err"
              /\ last'.status \notin (FaultStatuses \cup {404}) =>
                    IsKind(last'.error, "LABEL_EXISTS"))]_vars

C9_Witness ==
    /\ DuplicateRejected(last)
    /\ last.status # 404
    /\ last.label \in labels[last.pageId]
    /\ last.error.code = "LABEL_EXISTS"

\* A query contains a type filter clause: the field type, at the start or after a
\* blank, then blanks or none, the equals sign, blanks or none, and a value.
HasTypeClause(q) ==
    \E i, j, k \in 1..Len(q) :
        /\ i < j /\ j < k
        /\ q[i] = "type" /\ (i = 1 \/ q[i - 1] = " ")
        /\ q[j] = "=" /\ \A m \in (i + 1)..(j - 1) : q[m] = " "
        /\ q[k] \in {"a", "type"} /\ \A m \in (j + 1)..(k - 1) : q[m] = " "

\* C10: a query that contains a type filter clause is transmitted unmodified, any
\* other query wrapped as text ~ "<query>"; limit and start are forwarded, 25 and 0
\* when omitted.
C10_SearchQueryForm ==
    last.op = "searchConfluenceContent" =>
        /\ HasTypeClause(last.args.query) => last.request.cql = last.args.query
        /\ ~HasTypeClause(last.args.query) =>
              last.request.cql = TextMatch(last.args.query)
        /\ last.request.limit = (IF last.args.limit = Absent THEN 25 ELSE last.args.limit)
        /\ last.request.start = (IF last.args.start = Absent THEN 0 ELSE last.args.start)

-----------------------------------------------------------------------------
(* Claims about startup                                                    *)

\* The message the specification gives a failed verification answered with status st
\* (0: no answer; a 2xx status: the failure was not a transport error).
VerifyMessage(st) ==
    CASE st = 401 -> <<"Authentication failed: Invalid API token or email">>
      [] st = 403 -> <<"Authorization failed: Insufficient permissions">>
      [] st = 404 -> <<"API endpoint not found: Check Confluence domain">>
      [] st >= 500 -> <<"Confluence server error: API may be temporarily unavailable">>
      [] OTHER -> <<"Failed to connect to Confluence API">>

\* C11: verifyConnection issues one list-spaces read with limit 1; when it succeeds
\* nothing is raised; when it fails one error is raised whose message is chosen by
\* the response status: 401, 403, 404 and every status of 500 and above have their
\* own message, every other failure (another status, no response, an error that is
\* not a transport error) has the generic connection-failure message.
C11_VerifyClassified ==
    srv.verify.outcome \in {"ok", "err"} =>
        /\ srv.verify.request = [path |-> "/space", limit |-> 1]
        /\ srv.verify.requests = 1
        /\ srv.verify.outcome = "ok" => (Ok(srv.verify) /\ srv.verify.error = NoError)
        /\ ~Ok(srv.verify) => srv.verify.outcome = "err"
        /\ srv.verify.outcome = "err" =>
              /\ srv.verify.error.class = "Error"
              /\ srv.verify.error.message = VerifyMessage(srv.verify.status)

C11_Witness ==
    /\ srv.verify.outcome = "err"
    /\ srv.verify.status = 500
    /\ srv.verify.error.message =
          <<"Confluence server error: API may be temporarily unavailable">>

\* C12: when verifyConnection fails during startup the tool handlers are never
\* registered, no tool call reaches an adapter operation and the process ends with
\* exit code 1; and in every run no adapter operation is invoked for a tool call
\* before verifyConnection has succeeded, also while the listener is up and SSE
\* connections and messages are being accepted.
C12_NoToolBeforeVerified ==
    /\ srv.verify.outcome = "err" =>
          (/\ ~srv.handlers
           /\ srv.phase = "exited"
           /\ srv.exitCode = 1)
    /\ (srv.phase # "none" /\ srv.verify.outcome # "ok") =>
          (/\ last = NoCall
           /\ \A p \in Procs : upd[p] = Idle
           /\ srv.tool.outcome \in {"none", "error"}
           /\ srv.tool.thrown.code \in {"none", "MethodNotFound"})

C12_Witness ==
    /\ srv.verify.outcome = "err"
    /\ srv.exitCode = 1
    /\ srv.opened > 0
    /\ srv.post.status = 202
    /\ srv.tool.name = "get_confluence_page"
    /\ srv.tool.error.code = "MethodNotFound"
    /\ last = NoCall

-----------------------------------------------------------------------------
(* Claims about the adapter operations                                     *)

\* C13: an error raised inside an adapter operation that is not a transport error
\* leaves the operation as that same error, kind and message unchanged.
C13_NonTransportUnchanged ==
    (last.outcome = "err" /\ ~isAxiosError(last.raised)) => last.error = last.raised

\* C14: createPage(spaceKey, title, content) accepted by the service and followed by
\* getPage of the id it returned yields a page whose title and body content are the
\* submitted ones, whose space is the submitted space and whose version is 1; the
\* create request carries no version.
C14_CreateThenGet ==
    [][(/\ last.op = "createConfluencePage" /\ last.outcome = "ok"
        /\ last'.op = "getConfluencePage" /\ last'.outcome = "ok"
        /\ last'.pageId = last.ret.id)
       => (/\ last.request.body.version = Absent
           /\ last.ret.version = 1
           /\ last'.ret.id = last.ret.id
           /\ last'.ret.title = last.request.body.title
           /\ last'.ret.spaceId = SpaceId(last.request.body.space)
           /\ last'.ret.content = last.request.body.value
           /\ last'.ret.version = 1)]_vars

C14_Witness ==
    /\ last.op = "getConfluencePage" /\ last.outcome = "ok"
    /\ last.pageId = "p2"
    /\ last.ret.title = "T2" /\ last.ret.content = "C1" /\ last.ret.version = 1
    /\ last.ret.spaceId = SpaceId("S1")

-----------------------------------------------------------------------------
(* Claims about the dispatch of tool calls                                 *)

\* The arguments each tool requires.
Required(name) ==
    CASE name \in {"get_confluence_space", "list_confluence_pages"} -> {"spaceId"}
      [] name \in {"get_confluence_page", "get_confluence_labels"} -> {"pageId"}
      [] name = "find_confluence_page" -> {"title"}
      [] name = "create_confluence_page" -> {"spaceId", "title", "content"}
      [] name = "update_confluence_page" -> {"pageId", "title", "content", "version"}
      [] name = "search_confluence_pages" -> {"query"}
      [] name \in {"add_confluence_label", "remove_confluence_label"} ->
            {"pageId", "label"}
      [] OTHER -> {}

\* Argument f is missing from the arguments a.
Missing(a, f) ==
    IF f = "version" THEN a.version = Absent
    ELSE IF f = "query" THEN a.query = <<Undefined>>
    ELSE a[f] = Undefined

\* C15: a call of one of the eleven tools with a required argument missing fails
\* with InvalidParams and invokes no adapter operation; a call of any other tool name
\* fails with MethodNotFound and invokes no adapter operation either.
C15_ArgumentsChecked ==
    [][(srv.handlers /\ srv'.tool # srv.tool) =>
         LET t == srv'.tool IN
         /\ (t.name \in ToolNames /\ \E f \in Required(t.name) : Missing(t.args, f)) =>
               (/\ t.outcome = "error"
                /\ t.error.class = "McpError" /\ t.error.code = "InvalidParams"
                /\ UNCHANGED <<pages, labels, upd, last>>)
         /\ t.name \notin ToolNames =>
               (/\ t.outcome = "error"
                /\ t.error.class = "McpError" /\ t.error.code = "MethodNotFound"
                /\ UNCHANGED <<pages, labels, upd, last>>)]_vars

C15_Witness ==
    /\ srv.handlers
    /\ srv.tool.name = "update_confluence_page"
    /\ srv.tool.args.pageId = "p1" /\ srv.tool.args.version = Absent
    /\ srv.tool.error.code = "InvalidParams"
    /\ upd[ToolCaller] = Idle
    /\ last.op = "createConfluencePage"

\* C18: a tool call ends with the result of its handler or with an McpError; an
\* McpError thrown inside the dispatcher leaves it unchanged, code included, and any
\* other error, the domain errors of every kind included, leaves it as an McpError
\* with code InternalError whose message contains the message of the original.
C18_ErrorsWrapped ==
    (srv.handlers /\ srv.tool.outcome \notin {"none", "pending"}) =>
        /\ srv.tool.outcome \in {"result", "error"}
        /\ srv.tool.outcome = "result" => srv.tool.error = NoError
        /\ srv.tool.outcome = "error" =>
              /\ srv.tool.error.class = "McpError"
              /\ srv.tool.thrown.class = "McpError" => srv.tool.error = srv.tool.thrown
              /\ srv.tool.thrown.class # "McpError" =>
                    (/\ srv.tool.error.code = "InternalError"
                     /\ srv.tool.thrown.message # <<>>
                     /\ Includes(srv.tool.error.message, srv.tool.thrown.message))

C18_Witness ==
    /\ srv.tool.outcome = "error"
    /\ srv.tool.thrown.class = "ConfluenceError"
    /\ srv.tool.thrown.code = "LABEL_EXISTS"
    /\ srv.tool.error.code = "InternalError"
    /\ Includes(srv.tool.error.message, srv.tool.thrown.message)

\* C17: a POST /messages that arrives before any GET /sse is answered 400 and handled
\* by no transport; one that arrives after one or more GET /sse is handled by the
\* transport of the SSE connection opened last, never by that of an earlier one.
C17_LatestTransportOnly ==
    srv.post.status # 0 =>
        /\ srv.post.latest = 0 =>
              (srv.post.status = 400 /\ srv.post.handledBy = NoTransport)
        /\ srv.post.latest > 0 =>
              (srv.post.status # 400 /\ srv.post.handledBy = srv.post.latest)

C17_Witness ==
    /\ srv.opened = MaxConnections
    /\ srv.closed = {}
    /\ srv.post.status = 202
    /\ srv.post.handledBy = MaxConnections
    /\ srv.tool.via = MaxConnections
    /\ srv.tool.outcome = "result"

-----------------------------------------------------------------------------
(* Claims about the requests of the adapter                                *)

\* C16: every invocation of an adapter operation issues one request, but for the
\* legacy updatePage, which issues its read and then, only when the read succeeded,
\* one write; a failed request ends the invocation and is not issued again; and a
\* read is answered from the service as it is now, not from an earlier response.
C16_OneRequestNoRetry ==
    [][/\ last' # last =>
             (/\ last'.requests = 1
              /\ \A p \in Procs : upd'[p] = upd[p]
              /\ (last'.op = "getConfluencePage" /\ last'.outcome = "ok") =>
                    (/\ last'.ret.title = pages[last'.pageId].title
                     /\ last'.ret.content = pages[last'.pageId].content
                     /\ last'.ret.version = pages[last'.pageId].version))
       /\ \A p \in Procs :
             upd'[p] # upd[p] =>
                (/\ last' = last
                 /\ upd'[p].surface = "typed" =>
                       (upd'[p].pc = "done" /\ upd'[p].requests = 1)
                 /\ (upd'[p].surface = "legacy" /\ upd[p].pc # "write") =>
                       (/\ upd'[p].requests = 1
                        /\ upd'[p].sent = 0
                        /\ upd'[p].pc = "write" =>
                              (/\ pages[upd'[p].pageId].exists
                               /\ upd'[p].currentPage = PageData(upd'[p].pageId, FALSE))
                        /\ upd'[p].pc # "write" =>
                              (upd'[p].pc = "done" /\ upd'[p].outcome = "err"))
                 /\ upd[p].pc = "write" =>
                       (/\ upd'[p].pc = "done"
                        /\ upd'[p].requests = 2
                        /\ upd'[p].sent # 0))]_vars

C16_Witness ==
    /\ upd[ToolCaller].surface = "legacy"
    /\ upd[ToolCaller].pc = "done"
    /\ upd[ToolCaller].requests = 2
    /\ upd[ToolCaller].outcome = "err"
    /\ last.op = "getConfluencePage" /\ last.outcome = "ok" /\ last.ret.version = 2

====
